---- MODULE Spec2Model ----
(***************************************************************************)
(* Model of the incremental PID controller of helm.h (struct helm_state,   *)
(* helm_reset, helm_approach, helm_steady) and of the callers that drive   *)
(* it (step3.c, the usage sample in the documentation of helm.h).          *)
(*                                                                         *)
(* A C double is modelled as a pair <<n, d>>:                              *)
(*   d > 0        the finite number n/d, in lowest terms;                  *)
(*   <<1, 0>>     +infinity (INFINITY of math.h);                          *)
(*   <<-1, 0>>    -infinity;                                               *)
(*   <<0, 0>>     not-a-number (NAN of math.h).                            *)
(* The operations follow IEEE-754 on the special values (x/inf = 0,        *)
(* inf - inf = 0*inf = 0/0 = inf/inf = NaN, x/0 = inf, every comparison    *)
(* with NaN is false) and overflow to infinity when a finite result        *)
(* exceeds MaxDouble, the model's DBL_MAX.  Finite results within range    *)
(* are exact: rounding to 53 bits, underflow and the sign of zero are not  *)
(* modelled.                                                               *)
(***************************************************************************)
EXTENDS Integers, Sequences, FiniteSets, TLC

\* Largest finite magnitude of the model's double (DBL_MAX).
MaxDouble == 8

\* Most valid samples the caller steps in one run.
MaxSteps == 3

----------------------------------------------------------------------------
\* IEEE-754 double arithmetic

Abs(n) == IF n < 0 THEN -n ELSE n

Sgn(n) == IF n < 0 THEN -1 ELSE IF n > 0 THEN 1 ELSE 0

RECURSIVE GCD(_, _)
GCD(a, b) == IF b = 0 THEN a ELSE GCD(b, a % b)

NAN == <<0, 0>>

INFINITY == <<1, 0>>

NegInf == <<-1, 0>>

Zero == <<0, 1>>

Int2D(n) == <<n, 1>>

Frac(n, d) == <<n, d>>

isnan(x) == x = NAN

isinf(x) == x[2] = 0 /\ x[1] # 0

isfinite(x) == x[2] > 0

\* The double nearest n/d (d > 0): infinity beyond MaxDouble, else n/d.
Round(n, d) ==
    IF Abs(n) > MaxDouble * d
    THEN <<Sgn(n), 0>>
    ELSE LET g == GCD(Abs(n), d) IN <<n \div g, d \div g>>

FNeg(x) == <<-x[1], x[2]>>

FAdd(x, y) ==
    IF isnan(x) \/ isnan(y) THEN NAN
    ELSE IF isinf(x) /\ isinf(y) THEN (IF x = y THEN x ELSE NAN)
    ELSE IF isinf(x) THEN x
    ELSE IF isinf(y) THEN y
    ELSE Round(x[1] * y[2] + y[1] * x[2], x[2] * y[2])

FSub(x, y) == FAdd(x, FNeg(y))

FMul(x, y) ==
    IF isnan(x) \/ isnan(y) THEN NAN
    ELSE IF isinf(x) \/ isinf(y)
         THEN <<Sgn(x[1]) * Sgn(y[1]), 0>>
    ELSE Round(x[1] * y[1], x[2] * y[2])

FDiv(x, y) ==
    IF isnan(x) \/ isnan(y) THEN NAN
    ELSE IF isinf(y) THEN (IF isinf(x) THEN NAN ELSE Zero)
    ELSE IF isinf(x) THEN <<x[1] * (IF y[1] < 0 THEN -1 ELSE 1), 0>>
    ELSE IF y[1] = 0 THEN <<Sgn(x[1]), 0>>
    ELSE Round(x[1] * y[2] * Sgn(y[1]), x[2] * Abs(y[1]))

\* x < y, false when either is NaN
FLt(x, y) ==
    /\ ~isnan(x)
    /\ ~isnan(y)
    /\ IF isinf(x) /\ isinf(y) THEN x[1] < y[1]
       ELSE IF isinf(x) THEN x[1] < 0
       ELSE IF isinf(y) THEN y[1] > 0
       ELSE x[1] * y[2] < y[1] * x[2]

FGt(x, y) == FLt(y, x)

FGe(x, y) == ~isnan(x) /\ ~isnan(y) /\ ~FLt(x, y)

FAbs(x) == <<Abs(x[1]), x[2]>>

\* The IEEE-754 exceptions of one operation o = <<op, x, y, result>>
Invalid(o) == isnan(o[4]) /\ ~isnan(o[2]) /\ ~isnan(o[3])

DivByZero(o) ==
    o[1] = "div" /\ isfinite(o[2]) /\ o[2][1] # 0 /\ o[3] = Zero

Overflow(o) ==
    isfinite(o[2]) /\ isfinite(o[3]) /\ isinf(o[4]) /\ ~DivByZero(o)

\* The exceptions a sequence of operations raises
FeOf(ops) ==
    (IF \E i \in 1..Len(ops) : Invalid(ops[i]) THEN {"invalid"} ELSE {})
    \cup (IF \E i \in 1..Len(ops) : DivByZero(ops[i])
          THEN {"divbyzero"} ELSE {})
    \cup (IF \E i \in 1..Len(ops) : Overflow(ops[i])
          THEN {"overflow"} ELSE {})

----------------------------------------------------------------------------
\* State

VARIABLES
    h,          \* struct helm_state: kp, Td, Tf, Ti, Tt, y, f
    ndebug,     \* TRUE when the build defines NDEBUG (assert compiled out)
    pc,         \* "running", or "aborted" once an assert has failed
    op,         \* the operation the caller has just performed, or "idle"
    was,        \* struct helm_state as it was before that operation
    from,       \* phase before that operation
    args,       \* arguments dt, r, u, v, y when that was helm_steady
    dv,         \* value that helm_steady call returned
    fe,         \* IEEE-754 exceptions that helm_steady call raised
    phase,      \* "manual" until helm_approach returns, then "approach"
                \* until a valid sample is stepped, then "steady"
    scope,      \* "steps" while the history is a helm_approach, its
                \* assertions true, followed only by helm_steady calls with
                \* dt >= 0; "exact" while, besides, no y - f overflowed;
                \* otherwise "none"
    nvalid,     \* valid samples stepped so far
    sig,        \* the caller's actuator signal u and control signal v
    tally       \* v at the last helm_approach (v0), the first valid sample
                \* stepped since (y1, NAN while there is none), and whether
                \* v0 was finite and every step since had Tf + dt # 0 and
                \* overflowed nowhere

vars == <<h, ndebug, pc, op, was, from, args, dv, fe, phase, scope, nvalid,
          sig, tally>>

\* Values the uninitialised y and f of struct helm_state may hold
Indeterminate == {NAN, Int2D(1)}

Tuning(kp, Td, Tf, Ti, Tt) ==
    [kp |-> kp, Td |-> Td, Tf |-> Tf, Ti |-> Ti, Tt |-> Tt]

\* The tuning fields of struct helm_state
TuningOf(hh) == Tuning(hh.kp, hh.Td, hh.Tf, hh.Ti, hh.Tt)

\* Tunings the caller assigns: kp, Td, Tf, Ti, Tt
Tunings ==
    { Tuning(Int2D(2), Zero, INFINITY, INFINITY, INFINITY),
      Tuning(Int2D(1), Zero, Int2D(1), INFINITY, INFINITY),
      Tuning(Int2D(1), Int2D(1), Int2D(2), INFINITY, INFINITY),
      Tuning(Int2D(1), Zero, INFINITY, Int2D(1), INFINITY),
      Tuning(Int2D(1), Zero, INFINITY, INFINITY, Int2D(2)),
      Tuning(Int2D(2), Zero, INFINITY, INFINITY, Int2D(1)),
      Tuning(Int2D(2), Int2D(1), Int2D(1), Int2D(1), Int2D(1)),
      Tuning(Int2D(1), INFINITY, Int2D(1), INFINITY, INFINITY),
      Tuning(Int2D(1), Int2D(MaxDouble), Frac(1, 2), INFINITY, INFINITY),
      Tuning(Int2D(1), Zero, Zero, INFINITY, INFINITY),
      Tuning(Int2D(1), Int2D(-1), INFINITY, Int2D(-1), NAN) }

\* Arguments the caller passes to helm_steady
DtVals == {Int2D(-1), Zero, Int2D(1)}

RVals == {Zero, Int2D(1)}

UVals == {Zero, Int2D(1)}

VVals == {Zero}

YVals == {NAN, Int2D(-MaxDouble), Zero, Int2D(1)}

NoArgs == [dt |-> Zero, r |-> Zero, u |-> Zero, v |-> Zero, y |-> NAN]

----------------------------------------------------------------------------
\* helm.h

helm_reset(hh) ==
    [hh EXCEPT !.kp = Int2D(1),
               !.Td = Zero,
               !.Tf = INFINITY,
               !.Ti = INFINITY,
               !.Tt = INFINITY]

\* The four assertions of helm_approach
ApproachAsserts(hh) ==
    /\ FGe(hh.Td, Zero)
    /\ FGt(hh.Tf, Zero)
    /\ FGt(hh.Ti, Zero)
    /\ FGt(hh.Tt, Zero)

\* assert(c) of <assert.h>: checked unless NDEBUG is defined
assert(c) == ndebug \/ c

\* helm_approach restarting the filter from the last sample
helm_approach_Seed(hh) == [hh EXCEPT !.f = hh.y]

\* helm_approach restoring the default tuning as well
helm_approach_Reset(hh) == helm_reset([hh EXCEPT !.f = NAN])

helm_approach(hh) == [hh EXCEPT !.f = NAN]

\* No sample taken for invalid
Sighted_Always(y) == TRUE

\* "Avoid driving blind": the sample is used only when it is a number
Sighted(y) == ~isnan(y)

\* The first sample seeding f but not y
Startup_FilterOnly(hh, y) ==
    IF isnan(hh.f) THEN [hh EXCEPT !.f = y] ELSE hh

\* "Avoid startup kick": the first sample after helm_approach seeds y and f
Startup(hh, y) ==
    IF isnan(hh.f) THEN [hh EXCEPT !.y = y, !.f = y] ELSE hh

\* The denominator of alpha with the sign of dt reversed
FilterSpan_Minus(Tf, dt) == FSub(Tf, dt)

\* The denominator Tf + dt of alpha
FilterSpan(Tf, dt) == FAdd(Tf, dt)

\* alpha of the explicit discretisation, dt / Tf
Alpha_Ratio(Tf, dt) == FDiv(dt, Tf)

\* The weights of the convex combination exchanged
Alpha_Complement(Tf, dt) == FDiv(Tf, FilterSpan(Tf, dt))

\* Convex combination parameter alpha
Alpha(Tf, dt) == FDiv(dt, FilterSpan(Tf, dt))

\* Variant: the difference taken the wrong way round
BackwardDiff_Reversed(hh, y) == FSub(hh.y, y)

\* Backward difference taken against the filtered value
BackwardDiff_Filtered(hh, y) == FSub(y, hh.f)

\* Backward difference for y
BackwardDiff(hh, y) == FSub(y, hh.y)

\* Integral action divided by the reset time scale
IntegralAction_ByTt(hh, r, y) == FDiv(FSub(r, y), hh.Tt)

\* Action from integral control, before scaling by dt and kp
IntegralAction(hh, r, y) == FDiv(FSub(r, y), hh.Ti)

\* Automatic reset with u and v exchanged
ResetAction_Reversed(hh, u, v) == FDiv(FSub(v, u), hh.Tt)

\* Action from automatic reset, before scaling by dt and kp
ResetAction(hh, u, v) == FDiv(FSub(u, v), hh.Tt)

\* Td / Tf turned upside down
DerivativeGain_Inverted(hh) == FDiv(hh.Tf, hh.Td)

\* The factor Td / Tf of the action from derivative control
DerivativeGain(hh) == FDiv(hh.Td, hh.Tf)

\* The step keeping the increment it returns in f as well
Evolve_Accumulating(hh, dt, r, u, v, y) ==
    LET e == [h  |-> [hh EXCEPT !.y = y,
                                !.f = FAdd(hh.f, FMul(Alpha(hh.Tf, dt),
                                                      FSub(y, hh.f)))],
              dv |-> FMul(FSub(FMul(FAdd(IntegralAction(hh, r, y),
                                         ResetAction(hh, u, v)), dt),
                               BackwardDiff(hh, y)), hh.kp)]
    IN  [h  |-> [e.h EXCEPT !.f = FAdd(e.h.f, e.dv)],
         dv |-> e.dv,
         fe |-> {}]

\* The arithmetic of helm_steady on a valid sample: the state it leaves,
\* the increment it returns and the IEEE-754 exceptions it raises
Evolve(hh, dt, r, u, v, y) ==
    LET s   == FilterSpan(hh.Tf, dt)
        a   == Alpha(hh.Tf, dt)
        e   == FSub(y, hh.f)
        df  == FMul(a, e)
        dy  == BackwardDiff(hh, y)
        ri  == FSub(r, y)
        ai  == IntegralAction(hh, r, y)
        dv1 == FAdd(Zero, ai)
        ui  == FSub(u, v)
        ar  == ResetAction(hh, u, v)
        dv2 == FAdd(dv1, ar)
        dv3 == FMul(dv2, dt)
        q   == DerivativeGain(hh)
        w   == FSub(df, dy)
        ad  == FMul(q, w)
        dv4 == FAdd(dv3, ad)
        dv5 == FAdd(dv4, FNeg(dy))
        dv6 == FMul(dv5, hh.kp)
        f1  == FAdd(hh.f, df)
    IN  [h  |-> [hh EXCEPT !.y = y, !.f = f1],
         dv |-> dv6,
         fe |-> FeOf(<< <<"add", hh.Tf, dt, s>>, <<"div", dt, s, a>>,
                         <<"sub", y, hh.f, e>>, <<"mul", a, e, df>>,
                         <<"sub", y, hh.y, dy>>,
                         <<"sub", r, y, ri>>, <<"div", ri, hh.Ti, ai>>,
                         <<"add", Zero, ai, dv1>>,
                         <<"sub", u, v, ui>>, <<"div", ui, hh.Tt, ar>>,
                         <<"add", dv1, ar, dv2>>,
                         <<"mul", dv2, dt, dv3>>,
                         <<"div", hh.Td, hh.Tf, q>>, <<"sub", df, dy, w>>,
                         <<"mul", q, w, ad>>, <<"add", dv3, ad, dv4>>,
                         <<"sub", dv4, dy, dv5>>,
                         <<"mul", dv5, hh.kp, dv6>>,
                         <<"add", hh.f, df, f1>> >>)]

\* helm_steady without the test for an invalid sample
helm_steady_Blind(hh, dt, r, u, v, y) ==
    Evolve(Startup(hh, y), dt, r, u, v, y)

helm_steady(hh, dt, r, u, v, y) ==
    IF Sighted(y)
    THEN Evolve(Startup(hh, y), dt, r, u, v, y)
    ELSE [h |-> hh, dv |-> Zero, fe |-> {}]

----------------------------------------------------------------------------
\* The caller

\* struct helm_state h; helm_reset(&h);
Init ==
    /\ \E g \in Indeterminate :
          h = helm_reset([kp |-> g, Td |-> g, Tf |-> g, Ti |-> g, Tt |-> g,
                          y |-> g, f |-> g])
    /\ ndebug \in BOOLEAN
    /\ pc = "running"
    /\ op = "idle"
    /\ was = h
    /\ from = "manual"
    /\ args = NoArgs
    /\ dv = Zero
    /\ fe = {}
    /\ phase = "manual"
    /\ scope = "none"
    /\ nvalid = 0
    /\ sig = [u |-> Zero, v |-> Zero]
    /\ tally = [v0 |-> Zero, y1 |-> NAN, ok |-> TRUE]

Reset ==
    /\ pc = "running"
    /\ op = "idle"
    /\ h' = helm_reset(h)
    /\ op' = "reset"
    /\ was' = h
    /\ from' = phase
    /\ scope' = "none"
    /\ UNCHANGED <<ndebug, pc, args, dv, fe, phase, nvalid, sig, tally>>

\* h->kp = ...; h->Td = ...; h->Tf = ...; h->Ti = ...; h->Tt = ...;
Tune ==
    /\ pc = "running"
    /\ op = "idle"
    /\ \E t \in Tunings :
          h' = [h EXCEPT !.kp = t.kp, !.Td = t.Td, !.Tf = t.Tf,
                         !.Ti = t.Ti, !.Tt = t.Tt]
    /\ op' = "tune"
    /\ was' = h
    /\ from' = phase
    /\ scope' = "none"
    /\ UNCHANGED <<ndebug, pc, args, dv, fe, phase, nvalid, sig, tally>>

Approach ==
    /\ pc = "running"
    /\ op = "idle"
    /\ op' = "approach"
    /\ was' = h
    /\ from' = phase
    /\ IF assert(ApproachAsserts(h))
       THEN /\ h' = helm_approach(h)
            /\ phase' = "approach"
            /\ scope' = IF ApproachAsserts(h) THEN "exact" ELSE "none"
            /\ tally' = [v0 |-> sig.v, y1 |-> NAN, ok |-> isfinite(sig.v)]
            /\ pc' = pc
       ELSE /\ pc' = "aborted"
            /\ UNCHANGED <<h, phase, scope, tally>>
    /\ UNCHANGED <<ndebug, args, dv, fe, nvalid, sig>>

\* scope after helm_steady(h, dt, r, u, v, y)
ScopeAfter(dt, y) ==
    IF scope = "none" \/ ~FGe(dt, Zero) THEN "none"
    ELSE IF Sighted(y) /\ ~isfinite(FSub(y, Startup(h, y).f)) THEN "steps"
    ELSE scope

Call(dt, r, u, v, y) ==
    /\ pc = "running"
    /\ op = "idle"
    /\ Sighted(y) => nvalid < MaxSteps
    /\ \E res \in {helm_steady(h, dt, r, u, v, y)} :
          /\ h' = res.h
          /\ dv' = res.dv
          /\ fe' = res.fe
    /\ args' = [dt |-> dt, r |-> r, u |-> u, v |-> v, y |-> y]
    /\ op' = "steady"
    /\ was' = h
    /\ from' = phase
    /\ nvalid' = IF Sighted(y) THEN nvalid + 1 ELSE nvalid
    /\ phase' = IF Sighted(y) /\ phase = "approach" THEN "steady" ELSE phase
    /\ scope' = ScopeAfter(dt, y)
    /\ UNCHANGED <<ndebug, pc>>

\* helm_steady(&h, dt, r, u, v, y);
Steady ==
    /\ \E dt \in DtVals, r \in RVals, u \in UVals, v \in VVals, y \in YVals :
          Call(dt, r, u, v, y)
    /\ UNCHANGED <<sig, tally>>

\* The caller goes on to its next statement: the arguments and the
\* returned increment are locals of the statement that made the call
Continue ==
    /\ pc = "running"
    /\ op # "idle"
    /\ op' = "idle"
    /\ was' = h
    /\ from' = phase
    /\ args' = NoArgs
    /\ dv' = Zero
    /\ fe' = {}
    /\ UNCHANGED <<h, ndebug, pc, phase, scope, nvalid, sig, tally>>

Next == Reset \/ Tune \/ Approach \/ Steady \/ Continue

Spec == Init /\ [][Next]_vars

\* The sampling period of the control loop, fixed and strictly positive
LoopDt == Int2D(1)

\* Samples the process delivers to the control loop
ProcessVals == {NAN, Zero, Int2D(1)}

\* Signals an actuator with limits delivers
ActuatorVals == {Zero, Int2D(1)}

\* The tuning is assigned before automatic control is enabled
Configure == phase = "manual" /\ Tune

\* helm_approach(h); ahead of the control loop
Enable == phase = "manual" /\ Approach

\* One pass of the control loop:
\*    y = process(dt, u); v += helm_steady(h, dt, r, u, v, y);
\*    u = actuate(dt, v);
Iterate ==
    /\ phase # "manual"
    /\ \E r \in RVals, y \in ProcessVals : Call(LoopDt, r, sig.u, sig.v, y)
    /\ \E u \in ActuatorVals : sig' = [u |-> u, v |-> FAdd(sig.v, dv')]
    /\ UNCHANGED tally

NextLoop == Configure \/ Enable \/ Iterate \/ Continue

SpecLoop == Init /\ [][NextLoop]_vars

\* helm_steady(&h, dt, r, u, v, y); once automatic control is enabled
Run == phase # "manual" /\ Steady

\* A caller that assigns the tuning ahead of the first helm_approach,
\* leaves it alone afterwards and steps only under automatic control
NextRun == Configure \/ Approach \/ Run \/ Continue

SpecRun == Init /\ [][NextRun]_vars

\* v += helm_steady(h, dt, r, u, v, y); at irregular intervals, the
\* actuator signal staying where it is
Accumulate ==
    /\ phase # "manual"
    /\ \E dt \in DtVals, r \in RVals, y \in YVals :
          /\ Call(dt, r, sig.u, sig.v, y)
          /\ sig' = [sig EXCEPT !.v = FAdd(sig.v, dv')]
          /\ tally' = [tally EXCEPT
                          !.y1 = IF Sighted(y) /\ phase = "approach"
                                 THEN y ELSE @,
                          !.ok = /\ @
                                 /\ FAdd(h.Tf, dt) # Zero
                                 /\ "overflow" \notin fe'
                                 /\ isfinite(sig.v')]

\* A caller that accumulates the increments into its control signal
NextSum == Configure \/ Approach \/ Accumulate \/ Continue

SpecSum == Init /\ [][NextSum]_vars

----------------------------------------------------------------------------
\* Properties

\* The call just made was helm_steady on a valid sample
Stepped == op = "steady" /\ Sighted(args.y)

\* dt, r, u, v and y of the call just made are all finite
FiniteArgs ==
    /\ isfinite(args.dt)
    /\ isfinite(args.r)
    /\ isfinite(args.u)
    /\ isfinite(args.v)
    /\ isfinite(args.y)

\* Before the call, f was NAN straight from helm_approach, or y and f were
\* both finite after earlier valid samples
Settled ==
    \/ from = "approach" /\ isnan(was.f)
    \/ from = "steady" /\ isfinite(was.y) /\ isfinite(was.f)

\* Some tuning field violates the precondition as the specification words
\* it: Td negative, or Tf, Ti or Tt not strictly positive
BadTuning(hh) ==
    \/ FLt(hh.Td, Zero)
    \/ ~FGt(hh.Tf, Zero)
    \/ ~FGt(hh.Ti, Zero)
    \/ ~FGt(hh.Tt, Zero)

\* C1: a helm_steady call whose y is NaN returns exactly 0 and leaves every
\* field of the controller as it was, whatever dt, r, u and v are, and
\* also between helm_approach and the first valid sample.
C1_InvalidSampleNoOp ==
    (op = "steady" /\ isnan(args.y)) => (dv = Zero /\ h = was)

C1_Witness ==
    /\ op = "steady"
    /\ isnan(args.y)
    /\ from = "approach"
    /\ args.dt # Zero
    /\ args.r # args.u
    /\ dv = Zero
    /\ h = was

\* C2 (as specified): no step on a valid sample is ever computed while Td
\* is negative or Tf, Ti or Tt is not strictly positive.
C2_NoStepWithBadTuning == Stepped => ~BadTuning(was)

\* C3 (as specified): helm_approach called with a bad tuning halts the
\* program and changes nothing, and nothing else halts the program.
C3_ApproachChecksPrecondition ==
    /\ (op = "approach" /\ BadTuning(was)) => (pc = "aborted" /\ h = was)
    /\ pc = "aborted" => (op = "approach" /\ BadTuning(was))

\* C4 (as specified): after helm_approach, with its precondition true of
\* the tuning (infinite times allowed), finite kp, finite dt >= 0 and
\* finite r, u, v, y, a step on a valid sample returns a finite increment.
C4_StepReturnsFinite ==
    (/\ Stepped
     /\ Settled
     /\ ApproachAsserts(was)
     /\ isfinite(was.kp)
     /\ FiniteArgs
     /\ FGe(args.dt, Zero))
    => isfinite(dv)

\* C4 (amended): the same with Td finite as well and no operation of the
\* step overflowing; then no operation raises any exception either.
C4_StepReturnsFiniteAmended ==
    (/\ Stepped
     /\ Settled
     /\ ApproachAsserts(was)
     /\ isfinite(was.kp)
     /\ isfinite(was.Td)
     /\ FiniteArgs
     /\ FGe(args.dt, Zero)
     /\ "overflow" \notin fe)
    => (isfinite(dv) /\ fe = {})

C4_Witness ==
    /\ Stepped
    /\ from = "steady"
    /\ Settled
    /\ ApproachAsserts(was)
    /\ was.Td = Int2D(1)
    /\ was.Ti = Int2D(1)
    /\ was.Tt = Int2D(1)
    /\ args.dt = Int2D(1)
    /\ args.y # was.y
    /\ fe = {}
    /\ isfinite(dv)
    /\ dv # Zero

\* Ti and Tt are infinite and Td is zero: proportional control only
ProportionalOnly(hh) ==
    /\ hh.Ti = INFINITY
    /\ hh.Tt = INFINITY
    /\ hh.Td = Zero
    /\ ApproachAsserts(hh)

\* The previous valid sample since helm_approach; the current one when
\* there was none
PreviousSample == IF from = "approach" THEN args.y ELSE was.y

\* kp * -(y - previous valid sample)
ProportionalIncrement == FMul(was.kp, FNeg(FSub(args.y, PreviousSample)))

\* C5 (as specified): with Ti = Tt = +infinity and Td = 0, every step on a
\* valid sample after helm_approach returns kp * -(y - previous sample),
\* whatever dt, r, u, v and Tf are.
C5_PureProportional ==
    (Stepped /\ from # "manual" /\ ProportionalOnly(was))
    => dv = ProportionalIncrement

\* C5 (amended): the same for steps with dt >= 0 taken from a state earlier
\* such steps left finite, when no operation of the step overflows.
C5_PureProportionalAmended ==
    (/\ Stepped
     /\ Settled
     /\ ProportionalOnly(was)
     /\ FGe(args.dt, Zero)
     /\ "overflow" \notin fe)
    => dv = ProportionalIncrement

C5_Witness ==
    /\ Stepped
    /\ from = "steady"
    /\ Settled
    /\ ProportionalOnly(was)
    /\ was.kp = Int2D(2)
    /\ args.dt = Int2D(1)
    /\ args.r # args.y
    /\ args.u # args.v
    /\ fe = {}
    /\ dv = ProportionalIncrement
    /\ dv # Zero

\* The call just made stepped the first valid sample after helm_approach,
\* with r equal to the sample, u equal to v, and Ti and Tt infinite
FirstStepAtRest ==
    /\ Stepped
    /\ from = "approach"
    /\ ApproachAsserts(was)
    /\ args.r = args.y
    /\ args.u = args.v
    /\ was.Ti = INFINITY
    /\ was.Tt = INFINITY

\* C6 (as specified): the first valid step after helm_approach, taken at
\* rest, returns exactly 0 and sets y and f to the sample for any dt, kp,
\* Td and Tf.
C6_NoStartupKick ==
    FirstStepAtRest => (dv = Zero /\ h.y = args.y /\ h.f = args.y)

\* C6 (amended): the same for dt >= 0, finite kp and finite Td when no
\* operation of the step (Tf + dt, Td / Tf) overflows.
C6_NoStartupKickAmended ==
    (/\ FirstStepAtRest
     /\ FGe(args.dt, Zero)
     /\ isfinite(was.kp)
     /\ isfinite(was.Td)
     /\ "overflow" \notin fe)
    => (dv = Zero /\ h.y = args.y /\ h.f = args.y)

C6_Witness ==
    /\ FirstStepAtRest
    /\ args.dt = Int2D(1)
    /\ was.Td = Int2D(1)
    /\ was.Tf = Int2D(2)
    /\ isfinite(was.y)
    /\ was.y # args.y
    /\ fe = {}
    /\ dv = Zero
    /\ h.y = args.y
    /\ h.f = args.y

\* C7: helm_reset changes only the five tuning fields; helm_approach
\* changes only f; helm_steady changes only y and f.
C7_FrameConditions ==
    /\ op = "reset" => (h.y = was.y /\ h.f = was.f)
    /\ op = "approach" => (TuningOf(h) = TuningOf(was) /\ h.y = was.y)
    /\ op = "steady" => TuningOf(h) = TuningOf(was)
    /\ DOMAIN h = DOMAIN was

C7_Witness ==
    /\ op = "approach"
    /\ pc = "running"
    /\ TuningOf(was) # TuningOf(helm_reset(was))
    /\ TuningOf(h) = TuningOf(was)
    /\ isfinite(was.f)
    /\ was.f # was.y
    /\ isnan(h.f)
    /\ h.y = was.y

\* The call just made stepped a valid sample with a finite negative dt
\* under a tuning the assertions of helm_approach accept
SteppedBackwards ==
    /\ Stepped
    /\ Settled
    /\ ApproachAsserts(was)
    /\ FiniteArgs
    /\ FLt(args.dt, Zero)

\* C9 (as specified): with a finite negative dt, every tuning the
\* precondition accepts and finite other inputs, no operation of the step
\* divides by zero or is otherwise undefined, and the increment returned
\* and the updated f are numbers.
C9_NegativeDtDefined ==
    SteppedBackwards
    => (/\ "divbyzero" \notin fe
        /\ "invalid" \notin fe
        /\ ~isnan(dv)
        /\ ~isnan(h.f))

\* C9 (amended): the same provided Tf + dt is not zero, Td is finite and
\* no operation overflows; the increment and f are then finite.
C9_NegativeDtDefinedAmended ==
    (/\ SteppedBackwards
     /\ FAdd(was.Tf, args.dt) # Zero
     /\ isfinite(was.Td)
     /\ "overflow" \notin fe)
    => (fe = {} /\ isfinite(dv) /\ isfinite(h.f))

C9_Witness ==
    /\ SteppedBackwards
    /\ from = "steady"
    /\ was.Tf = Int2D(2)
    /\ FAdd(was.Tf, args.dt) # Zero
    /\ args.y # was.f
    /\ fe = {}
    /\ isfinite(dv)
    /\ isfinite(h.f)
    /\ h.f # was.f

\* C10 (as specified): in every state reached by helm_approach followed
\* only by steps with finite dt >= 0 and samples finite or NaN, f is NaN
\* or finite, and it is NaN exactly when no valid sample has been stepped
\* since helm_approach.
C10_FilteredObservable ==
    scope # "none"
    => (/\ isnan(h.f) \/ isfinite(h.f)
        /\ isnan(h.f) <=> phase = "approach")

\* C10 (amended): the same provided y - f overflowed in none of the steps.
C10_FilteredObservableAmended ==
    scope = "exact"
    => (/\ isnan(h.f) \/ isfinite(h.f)
        /\ isnan(h.f) <=> phase = "approach")

C10_Witness ==
    /\ scope = "exact"
    /\ Stepped
    /\ from = "steady"
    /\ was.Tf = Int2D(1)
    /\ args.dt = Int2D(1)
    /\ isfinite(h.f)
    /\ h.f # was.f
    /\ h.f # args.y

\* |u - v| of a pair of signals
Gap(g) == FAbs(FSub(g.u, g.v))

\* kp * dt * (u - v) / Tt of the call just made
PullTerm ==
    FDiv(FMul(FMul(was.kp, args.dt), FSub(args.u, args.v)), was.Tt)

\* kp * dt / Tt of the call just made
PullFactor == FDiv(FMul(was.kp, args.dt), was.Tt)

\* The integral, derivative and proportional terms of the call just made
\* are zero: Ti infinite, Td zero, sample unchanged
OtherTermsZero ==
    /\ was.Ti = INFINITY
    /\ was.Td = Zero
    /\ args.y = PreviousSample

\* The pass just made stepped a valid sample under finite Tt, kp > 0 and
\* dt > 0 with u different from v, and the actuator kept u where it was
PulledWhileSaturated ==
    /\ Stepped
    /\ Settled
    /\ ApproachAsserts(was)
    /\ isfinite(was.Tt)
    /\ FGt(was.kp, Zero)
    /\ isfinite(was.kp)
    /\ FGt(args.dt, Zero)
    /\ FiniteArgs
    /\ args.u # args.v
    /\ sig.u = args.u

\* C8 (as specified): under finite Tt, kp > 0 and dt > 0, with u # v the
\* increment contains the nonzero term kp * dt * (u - v) / Tt, and the other
\* terms being zero the gap |u - v| is smaller after the step than before
\* while u stays fixed.
C8_AutomaticReset ==
    (PulledWhileSaturated /\ OtherTermsZero)
    => (/\ PullTerm # Zero
        /\ dv = PullTerm
        /\ FLt(Gap(sig), Gap(args)))

\* C8 (amended): the same provided kp * dt / Tt is less than 2 and no
\* operation of the step overflows.
C8_AutomaticResetAmended ==
    (/\ PulledWhileSaturated
     /\ OtherTermsZero
     /\ FLt(PullFactor, Int2D(2))
     /\ "overflow" \notin fe)
    => (/\ PullTerm # Zero
        /\ dv = PullTerm
        /\ FLt(Gap(sig), Gap(args)))

C8_Witness ==
    /\ PulledWhileSaturated
    /\ OtherTermsZero
    /\ PullFactor = Frac(1, 2)
    /\ from = "steady"
    /\ dv = PullTerm
    /\ FGt(Gap(sig), Zero)
    /\ FLt(Gap(sig), Gap(args))

\* The call just made, repeated from the same state with reference r2
WithReference(r2) ==
    helm_steady(was, args.dt, r2, args.u, args.v, args.y)

\* kp * dt * (r1 - r2) / Ti for the reference r1 of the call just made
ReferenceShare(r2) ==
    FDiv(FMul(FMul(was.kp, args.dt), FSub(args.r, r2)), was.Ti)

\* What C11 states of the call just made against the outcome w of the same
\* call with reference r2
ReferenceOnlyIntegral(r2, w) ==
    /\ FSub(dv, w.dv) = ReferenceShare(r2)
    /\ was.Ti = INFINITY => dv = w.dv
    /\ w.h = h

\* C11 (as specified): two steps from the same state with the same dt, u,
\* v and valid y but references r1, r2 return increments that differ by
\* exactly kp * dt * (r1 - r2) / Ti, and the same increment when Ti is
\* infinite.
C11_DerivativeOnMeasurement ==
    (Stepped /\ Settled /\ ApproachAsserts(was) /\ FiniteArgs)
    => \A r2 \in RVals :
          LET w == WithReference(r2) IN ReferenceOnlyIntegral(r2, w)

\* C11 (amended): the same whenever both increments are finite.
C11_DerivativeOnMeasurementAmended ==
    (Stepped /\ Settled /\ ApproachAsserts(was) /\ FiniteArgs /\ isfinite(dv))
    => \A r2 \in RVals \ {args.r} :
          LET w == WithReference(r2)
          IN  isfinite(w.dv) => ReferenceOnlyIntegral(r2, w)

C11_Witness ==
    /\ Stepped
    /\ from = "steady"
    /\ Settled
    /\ was.Ti = Int2D(1)
    /\ was.Td = Int2D(1)
    /\ args.dt = Int2D(1)
    /\ args.y # was.y
    /\ isfinite(dv)
    /\ \E r2 \in RVals :
          LET w == WithReference(r2)
          IN  /\ isfinite(w.dv)
              /\ w.dv # dv
              /\ ReferenceOnlyIntegral(r2, w)

\* The state before the call just made, under the default tuning but
\* for Tf
Plain == helm_reset(was)

\* The call just made, repeated from the same y and f with the same dt and
\* y under the default kp, Td, Ti, Tt and with r, u, v all zero
Twin ==
    helm_steady([Plain EXCEPT !.Tf = was.Tf],
                args.dt, Zero, Zero, Zero, args.y)

\* C12: y and f after any call depend only on Tf and on the (dt, y) pairs:
\* helm_approach leaves f NaN and y alone whatever the tuning, and every
\* step leaves the y and f that the same step leaves under the default
\* kp, Td, Ti, Tt with r = u = v = 0, hence the same as under any other
\* choice of them; the increment is returned only, the struct has no
\* field for it.
C12_NoAccumulatedState ==
    /\ (op = "approach" /\ pc = "running") => (isnan(h.f) /\ h.y = was.y)
    /\ op = "steady" => LET w == Twin.h IN w.y = h.y /\ w.f = h.f
    /\ DOMAIN h = {"kp", "Td", "Tf", "Ti", "Tt", "y", "f"}

C12_Witness ==
    /\ Stepped
    /\ from = "steady"
    /\ was.Tf = Int2D(1)
    /\ was.kp = Int2D(2)
    /\ was.Ti = Int2D(1)
    /\ was.Tt = Int2D(1)
    /\ was.Td = Int2D(1)
    /\ args.dt = Int2D(1)
    /\ args.r # Zero
    /\ args.u # Zero
    /\ isfinite(h.f)
    /\ h.f # was.f
    /\ h.f # h.y
    /\ isfinite(dv)
    /\ Twin.dv # dv
    /\ Twin.h.f = h.f

\* f on entry of the call just made, replaced by y when it is NaN
EntryF == IF isnan(was.f) THEN args.y ELSE was.f

\* y on entry of the call just made, replaced by the sample when f is NaN
EntryY == IF isnan(was.f) THEN args.y ELSE was.y

\* alpha = dt / (Tf + dt) of the reference update
RefAlpha == FDiv(args.dt, FAdd(was.Tf, args.dt))

\* df = alpha * (y - f0) of the reference update
RefDf == FMul(RefAlpha, FSub(args.y, EntryF))

\* dy = y - y0 of the reference update
RefDy == FSub(args.y, EntryY)

\* kp * (dt*((r - y)/Ti + (u - v)/Tt) + (Td/Tf)*(df - dy) - dy)
RefIncrement ==
    FMul(was.kp,
         FSub(FAdd(FMul(args.dt,
                        FAdd(FDiv(FSub(args.r, args.y), was.Ti),
                             FDiv(FSub(args.u, args.v), was.Tt))),
                   FMul(FDiv(was.Td, was.Tf), FSub(RefDf, RefDy))),
              RefDy))

\* dt*y + Tf*f0
RefNumerator == FAdd(FMul(args.dt, args.y), FMul(was.Tf, EntryF))

\* (dt*y + Tf*f0) / (Tf + dt)
RefClosedForm == FDiv(RefNumerator, FAdd(was.Tf, args.dt))

Between(x, a, b) ==
    \/ FGe(x, a) /\ FGe(b, x)
    \/ FGe(a, x) /\ FGe(x, b)

\* The call just made stepped a valid sample with dt >= 0 under Tf > 0
\* from finite or freshly reset y and f
Filtered ==
    /\ Stepped
    /\ Settled
    /\ FiniteArgs
    /\ FGe(args.dt, Zero)
    /\ FGt(was.Tf, Zero)

\* alpha is in [0, 1), is 0 when dt is 0, and f after the step lies between
\* f before it and the sample
Convex ==
    /\ FGe(Alpha(was.Tf, args.dt), Zero)
    /\ FLt(Alpha(was.Tf, args.dt), Int2D(1))
    /\ args.dt = Zero => Alpha(was.Tf, args.dt) = Zero
    /\ Between(h.f, EntryF, args.y)

\* C14 (as specified): for dt >= 0 and Tf > 0, +infinity included, alpha
\* is in [0, 1) and is 0 when dt = 0, and after every valid step f lies
\* between its previous value and the sample.
C14_FilterConvexity == Filtered => Convex

\* C14 (amended): the same provided y - f does not overflow.
C14_FilterConvexityAmended ==
    (Filtered /\ isfinite(FSub(args.y, EntryF))) => Convex

C14_Witness ==
    /\ Filtered
    /\ from = "steady"
    /\ was.Tf = Int2D(2)
    /\ args.dt = Int2D(1)
    /\ Alpha(was.Tf, args.dt) = Frac(1, 3)
    /\ args.y # was.f
    /\ h.f # was.f
    /\ h.f # args.y
    /\ Between(h.f, was.f, args.y)

\* The call just made, repeated from a state whose y before helm_approach
\* was zero
Fresh ==
    helm_steady([was EXCEPT !.y = Zero],
                args.dt, args.r, args.u, args.v, args.y)

\* kp * dt * ((r - y)/Ti + (u - v)/Tt) of the call just made
IntegralIncrement ==
    FMul(FMul(was.kp, args.dt),
         FAdd(FDiv(FSub(args.r, args.y), was.Ti),
              FDiv(FSub(args.u, args.v), was.Tt)))

\* The call just made stepped the first valid sample after helm_approach,
\* with dt >= 0
Resumed ==
    /\ Stepped
    /\ from = "approach"
    /\ ApproachAsserts(was)
    /\ FiniteArgs
    /\ FGe(args.dt, Zero)

\* The first valid step after helm_approach returns the same and leaves
\* the same state whatever y was before, so every later step does too
Bumpless == LET w == Fresh IN w.dv = dv /\ w.h = h

\* C15 (as specified): after helm_approach the results and states of the
\* steps that follow (dt >= 0) do not depend on the y and f held before it,
\* and the first valid step returns exactly
\* kp * dt * ((r - y)/Ti + (u - v)/Tt).
C15_BumplessResumption ==
    Resumed => (Bumpless /\ dv = IntegralIncrement)

\* C15 (amended): the same for dt >= 0, the value of the first valid step
\* being kp * dt * ((r - y)/Ti + (u - v)/Tt) for finite kp and Td when no
\* operation of the step overflows.
C15_BumplessResumptionAmended ==
    Resumed
    => (/\ Bumpless
        /\ (isfinite(was.kp) /\ isfinite(was.Td) /\ "overflow" \notin fe)
           => dv = IntegralIncrement)

C15_Witness ==
    /\ Resumed
    /\ nvalid >= 2
    /\ isfinite(was.y)
    /\ was.y # args.y
    /\ was.y # Zero
    /\ was.Td = Int2D(1)
    /\ was.Ti = Int2D(1)
    /\ was.Tt = Int2D(1)
    /\ args.dt = Int2D(1)
    /\ args.r # args.y
    /\ fe = {}
    /\ Bumpless
    /\ dv = IntegralIncrement
    /\ dv # Zero

\* ---------------------------------------------------------------------
\* The increments a caller has accumulated since helm_approach, and what
\* positional proportional control would have made of the same samples
Accumulated == FSub(sig.v, tally.v0)

Positional == FNeg(FMul(h.kp, FSub(h.y, tally.y1)))

\* A caller past helm_approach under gain-only tuning (Ti = Tt = +inf,
\* Td = 0), at rest between two calls
Summing ==
    /\ op = "idle"
    /\ pc = "running"
    /\ phase # "manual"
    /\ ProportionalOnly(h)

Telescoped ==
    IF phase = "approach"
    THEN /\ Accumulated = Zero
         /\ sig.v = tally.v0
    ELSE /\ Accumulated = Positional
         /\ sig.v = FSub(tally.v0, FMul(h.kp, FSub(h.y, tally.y1)))

\* C16: under Ti = Tt = +inf and Td = 0, after helm_approach and any
\* sequence of steps with arbitrary dt and invalid samples interleaved,
\* the returned increments sum to -kp * (last valid y - first valid y),
\* so a caller doing v += dv holds v = v0 - kp * (y_last - y_first).
C16_TelescopingSum == Summing => Telescoped

\* C16 as amended: the same, when v was finite at helm_approach, no step
\* since had Tf + dt = 0, and nothing overflowed in a step or in the
\* caller's sum.
C16_TelescopingSumAmended == (Summing /\ tally.ok) => Telescoped

\* MaxSteps valid samples summed without overflow, the last sample
\* differing from the first
C16_Witness ==
    /\ Summing
    /\ tally.ok
    /\ phase = "steady"
    /\ nvalid >= MaxSteps
    /\ h.kp = Int2D(2)
    /\ tally.y1 = Zero
    /\ h.y = Int2D(1)
    /\ sig.v = Int2D(-2)
    /\ Accumulated = Positional


====
